---- MODULE Spec2Model ----
(***************************************************************************)
(* RAID-2 style bit-striping array (raid_2/src/disks.rs).                  *)
(*                                                                         *)
(* Data stripes a bit sequence round-robin over disk_count in-memory       *)
(* disks; Raid wraps a Data and, for every layer that last_layer moved     *)
(* past, appends one Hamming parity bit to each parity disk.               *)
(*                                                                         *)
(* Rust indices are 0-based, TLA+ sequences 1-based: element i of a Vec is *)
(* info[i + 1] here.  A call's outcome is "Ok", "Err" (an Err(&str) handed *)
(* to the caller) or "Panic" (a failed unwrap, an index out of bounds, an  *)
(* arithmetic overflow): a panic ends the run.                             *)
(***************************************************************************)
EXTENDS Integers, Sequences, FiniteSets, TLC

VARIABLES
    data,          \* struct Data: disks, disk_count, last_index, last_layer, total_capacity
    disk_size,     \* the disk_size argument of Data::new
    raid,          \* TRUE iff a Raid was built over the fresh Data (it holds &mut Data)
    parity_disks,  \* Raid.parity_disks
    parity_count,  \* Raid.parity_count
    written,       \* history: every bit accepted so far, in order
    encoded,       \* history: the layers handed to encode_single_sequence, in order
    op             \* the last call: its name, arguments and outcome

vars == <<data, disk_size, raid, parity_disks, parity_count, written, encoded, op>>

----------------------------------------------------------------------------
(* Bounds of the model *)

MaxDisks == 3
MaxSize == 3
MaxTotal == 9
MaxBits == 3
MaxNum == 64

Bit == BOOLEAN

\* every bit sequence of length 0..n
BitSeqs(n) == UNION {[1..k -> Bit] : k \in 0..n}

RECURSIVE Pow2(_)
Pow2(k) == IF k = 0 THEN 1 ELSE 2 * Pow2(k - 1)

Xor(a, b) == a # b

----------------------------------------------------------------------------
(* Disk *)

Disk_new(disk_type) == [info |-> <<>>, disk_type |-> disk_type]

\* Disk_write that inserts at the front
Disk_write_front(disk, bit) == [disk EXCEPT !.info = <<bit>> \o @]

Disk_write(disk, bit) == [disk EXCEPT !.info = Append(@, bit)]

\* Disk_get with the bound off by one (index > len): info[len] is then
\* indexed, which panics
Disk_get_inclusive(disk, index) ==
    IF index > Len(disk.info)
    THEN [status |-> "Err", err |-> "Index was too big.", value |-> FALSE]
    ELSE IF index = Len(disk.info)
    THEN [status |-> "Panic", err |-> "index out of bounds", value |-> FALSE]
    ELSE [status |-> "Ok", err |-> "", value |-> disk.info[index + 1]]

Disk_get(disk, index) ==
    IF index >= Len(disk.info)
    THEN [status |-> "Err", err |-> "Index was too big.", value |-> FALSE]
    ELSE [status |-> "Ok", err |-> "", value |-> disk.info[index + 1]]

----------------------------------------------------------------------------
(* Data *)

Data_new(disk_count, size) ==
    [disks          |-> [i \in 0..(disk_count - 1) |-> Disk_new("Data")],
     disk_count     |-> disk_count,
     last_index     |-> 0,
     last_layer     |-> 0,
     total_capacity |-> disk_count * size]

\* the guard of write_sequence
\* CapacityExceeded that lets the exact fit through
CapacityExceeded_strict(d, bits) == d.last_index + Len(bits) > d.total_capacity

\* CapacityExceeded that forgets the length of the new bits
CapacityExceeded_ignoring_length(d, bits) == d.last_index >= d.total_capacity

CapacityExceeded(d, bits) == d.last_index + Len(bits) >= d.total_capacity

\* the disk that bit number index of a write lands on
\* StripeDisk that restarts every write at disk 0
StripeDisk_no_offset(previous_last_index, index, disk_count) == index % disk_count

\* StripeDisk that starts one disk late
StripeDisk_shifted(previous_last_index, index, disk_count) ==
    (previous_last_index + index + 1) % disk_count

StripeDisk(previous_last_index, index, disk_count) ==
    (previous_last_index + index) % disk_count

\* LayerAdvances without the exception for the first bit of the array
LayerAdvances_every_wrap(adjusted_index, last_index) == adjusted_index = 0

\* whether writing to disk adjusted_index opens a new layer
LayerAdvances(adjusted_index, last_index) ==
    adjusted_index = 0 /\ last_index # 0

\* one iteration of the loop of write_sequence; index is 0-based
WriteStep(d, previous_last_index, index, value) ==
    LET adjusted_index == StripeDisk(previous_last_index, index, d.disk_count)
    IN  [d EXCEPT
           !.disks[adjusted_index] = Disk_write(@, value),
           !.last_layer = IF LayerAdvances(adjusted_index, d.last_index)
                          THEN @ + 1 ELSE @,
           !.last_index = @ + 1]

\* the loop of write_sequence from iteration index on
RECURSIVE WriteLoop(_, _, _, _)
WriteLoop(d, previous_last_index, bits, index) ==
    IF index >= Len(bits) THEN d
    ELSE WriteLoop(WriteStep(d, previous_last_index, index, bits[index + 1]),
                   previous_last_index, bits, index + 1)

\* write_sequence that fills the array before it reports the lack of space
Data_write_sequence_partial(d, bits) ==
    IF CapacityExceeded(d, bits)
    THEN [status |-> "Err", err |-> "Not enough space",
          data |-> WriteLoop(d, d.last_index,
                             SubSeq(bits, 1, d.total_capacity - d.last_index), 0)]
    ELSE [status |-> "Ok", err |-> "",
          data |-> WriteLoop(d, d.last_index, bits, 0)]

Data_write_sequence(d, bits) ==
    IF CapacityExceeded(d, bits)
    THEN [status |-> "Err", err |-> "Not enough space", data |-> d]
    ELSE [status |-> "Ok", err |-> "",
          data |-> WriteLoop(d, d.last_index, bits, 0)]


\* the bounds check of get_bit
GetBitRejects(d, index) == index > d.last_index

\* the disk and the per-disk offset of logical position index
DiskNumber(index, disk_count) == index % disk_count

DiskOffset(index, disk_count) == index \div disk_count

get_bit(d, index) ==
    IF GetBitRejects(d, index)
    THEN [status |-> "Err", err |-> "Index was too big.", value |-> FALSE]
    ELSE LET disk_number    == DiskNumber(index, d.disk_count)
             adjusted_index == DiskOffset(index, d.disk_count)
         IN  Disk_get(d.disks[disk_number], adjusted_index)

\* the loop of get_slice: get_bit(index).unwrap() for index in index..end_index
RECURSIVE SliceLoop(_, _, _, _)
SliceLoop(d, index, end_index, result) ==
    IF index >= end_index
    THEN [status |-> "Ok", err |-> "", value |-> result]
    ELSE LET bit == get_bit(d, index)
         IN  IF bit.status # "Ok"
             THEN [status |-> "Panic", err |-> bit.err, value |-> result]
             ELSE SliceLoop(d, index + 1, end_index, Append(result, bit.value))

\* the bounds check of get_slice
GetSliceRejects(d, start_index, end_index) == end_index > d.last_index

\* end_index - start_index on usize: with overflow checks the subtraction
\* panics; without them it wraps to 2^64 - (start_index - end_index), more
\* than isize::MAX bytes, and Vec::with_capacity panics ("capacity overflow").
SliceCapacityPanics(start_index, end_index) == start_index > end_index

get_slice(d, start_index, end_index) ==
    IF GetSliceRejects(d, start_index, end_index)
    THEN [status |-> "Err",
          err |-> "End index is larger than the biggest possible index.",
          value |-> <<>>]
    ELSE IF SliceCapacityPanics(start_index, end_index)
    THEN [status |-> "Panic", err |-> "capacity overflow", value |-> <<>>]
    ELSE SliceLoop(d, start_index, end_index, <<>>)

\* is_layer_full that trusts last_layer
is_layer_full_by_last_layer(d, layer_index) == layer_index < d.last_layer

is_layer_full(d, layer_index) ==
    \/ layer_index < d.last_index \div d.disk_count
    \/ /\ layer_index = d.last_index \div d.disk_count
       /\ d.last_index % d.disk_count = 0

\* the guard of get_data_layer
GetLayerRejects(d, layer_index) ==
    \/ layer_index > d.last_index \div d.disk_count
    \/ ~is_layer_full(d, layer_index)

\* the loop of get_data_layer: disks[i].get(layer_index).unwrap() for i in
\* 0..layer.capacity(); Vec::with_capacity(disk_count) allocates exactly
\* disk_count elements of a one-byte type.
RECURSIVE LayerLoop(_, _, _, _)
LayerLoop(d, layer_index, i, layer) ==
    IF i >= d.disk_count
    THEN [status |-> "Ok", err |-> "", value |-> layer]
    ELSE LET bit == Disk_get(d.disks[i], layer_index)
         IN  IF bit.status # "Ok"
             THEN [status |-> "Panic", err |-> bit.err, value |-> layer]
             ELSE LayerLoop(d, layer_index, i + 1, Append(layer, bit.value))

get_data_layer(d, layer_index) ==
    IF GetLayerRejects(d, layer_index)
    THEN [status |-> "Err", err |-> "Layer is not full", value |-> <<>>]
    ELSE LayerLoop(d, layer_index, 0, <<>>)

----------------------------------------------------------------------------
(* The Hamming codec (crate::hamming), used by Raid *)

\* parity_bits_count: the least r with 2^r >= data_width + r + 1
RECURSIVE ParityBitsFrom(_, _)
ParityBitsFrom(data_width, r) ==
    IF Pow2(r) >= data_width + r + 1 THEN r ELSE ParityBitsFrom(data_width, r + 1)

parity_bits_count(data_width) == ParityBitsFrom(data_width, 0)

\* position (0-based) is reserved for a parity bit iff position + 1 is a power of two
IsReserved(position) == \E k \in 0..position : Pow2(k) = position + 1

\* add_bits: the data bits in order, with a placeholder (false) at every
\* reserved position; the length is data width + parity_bits_count
RECURSIVE AddBitsFrom(_, _, _)
AddBitsFrom(bits, next, extended) ==
    IF next > Len(bits) THEN extended
    ELSE IF IsReserved(Len(extended))
    THEN AddBitsFrom(bits, next, Append(extended, FALSE))
    ELSE AddBitsFrom(bits, next + 1, Append(extended, bits[next]))

add_bits(bits) == AddBitsFrom(bits, 1, <<>>)

\* position (0-based) is covered by the parity bit at reserved position
\* 2^k - 1 iff bit k of position + 1 is set
Covers(k, position) == ((position + 1) \div Pow2(k)) % 2 = 1

RECURSIVE XorCovered(_, _, _)
XorCovered(extended, k, position) ==
    IF position >= Len(extended) THEN FALSE
    ELSE Xor(Covers(k, position) /\ extended[position + 1],
             XorCovered(extended, k, position + 1))

\* calculate_parity_bits: reserved position -> even parity of the bits it covers
calculate_parity_bits(extended) ==
    [position \in {p \in 0..(Len(extended) - 1) : IsReserved(p)} |->
        LET k == CHOOSE j \in 0..position : Pow2(j) = position + 1
        IN  XorCovered(extended, k, 0)]

----------------------------------------------------------------------------
(* Raid *)

\* get_power_of_two whose loop runs while result > 0
RECURSIVE get_power_of_two_to_zero(_)
get_power_of_two_to_zero(num) ==
    IF num > 0 THEN 1 + get_power_of_two_to_zero(num \div 2) ELSE 0

\* the loop "while result > 1 { result >>= 1; count += 1 }", by its iterations
RECURSIVE get_power_of_two(_)
get_power_of_two(num) ==
    IF num > 1 THEN 1 + get_power_of_two(num \div 2) ELSE 0

\* ParityDisk that takes the logarithm of the 0-based position itself
ParityDisk_of_index(index) == get_power_of_two(index)

\* the parity disk a computed parity bit is appended to
ParityDisk(index) == get_power_of_two(index + 1)

Raid_new(d) ==
    LET count == parity_bits_count(d.disk_count)
    IN  [parity_disks |-> [k \in 0..(count - 1) |-> Disk_new("Parity")],
         parity_count |-> count]

\* the loop of encode_single_sequence over the (index, value) pairs not yet
\* visited, by ascending index; indexing parity_disks out of bounds panics
RECURSIVE EncodeLoop(_, _, _)
EncodeLoop(pdisks, parity_bits, todo) ==
    IF todo = {} THEN [status |-> "Ok", parity_disks |-> pdisks]
    ELSE LET index == CHOOSE p \in todo : \A q \in todo : p <= q
             k     == ParityDisk(index)
         IN  IF k \notin DOMAIN pdisks
             THEN [status |-> "Panic", parity_disks |-> pdisks]
             ELSE EncodeLoop([pdisks EXCEPT ![k] = Disk_write(@, parity_bits[index])],
                             parity_bits, todo \ {index})

encode_single_sequence(pdisks, bits) ==
    LET bits_extra  == add_bits(bits)
        parity_bits == calculate_parity_bits(bits_extra)
    IN  EncodeLoop(pdisks, parity_bits, DOMAIN parity_bits)

\* EncodedFrom that starts over at the first layer
EncodedFrom_zero(before_layer) == 0

\* EncodedFrom that starts one layer late
EncodedFrom_next(before_layer) == before_layer + 1

\* the layers a successful write encodes: before_layer..after_layer
EncodedFrom(before_layer) == before_layer

\* the loop of Raid::write_sequence: get_data_layer(layer).unwrap(), then
\* encode; layers lists the layers encode_single_sequence was called for
RECURSIVE EncodeLayers(_, _, _, _)
EncodeLayers(d, pdisks, layer, after_layer) ==
    IF layer >= after_layer
    THEN [status |-> "Ok", parity_disks |-> pdisks, layers |-> <<>>]
    ELSE LET got == get_data_layer(d, layer)
         IN  IF got.status # "Ok"
             THEN [status |-> "Panic", parity_disks |-> pdisks, layers |-> <<>>]
             ELSE LET enc == encode_single_sequence(pdisks, got.value)
                  IN  IF enc.status # "Ok"
                      THEN [status |-> "Panic", parity_disks |-> enc.parity_disks,
                            layers |-> <<layer>>]
                      ELSE LET rest == EncodeLayers(d, enc.parity_disks,
                                                    layer + 1, after_layer)
                           IN  [rest EXCEPT !.layers = <<layer>> \o @]

Raid_write_sequence(d, pdisks, bits) ==
    LET before_layer == d.last_layer
        wrote        == Data_write_sequence(d, bits)
    IN  IF wrote.status = "Err"
        THEN [status |-> "Err", err |-> "Not enough space",
              data |-> wrote.data, parity_disks |-> pdisks, layers |-> <<>>]
        ELSE LET enc == EncodeLayers(wrote.data, pdisks, EncodedFrom(before_layer),
                                     wrote.data.last_layer)
             IN  [status |-> enc.status, err |-> "",
                  data |-> wrote.data, parity_disks |-> enc.parity_disks,
                  layers |-> enc.layers]

----------------------------------------------------------------------------
(* The state machine *)

Call(name, args, bits, status, err, value) ==
    [name |-> name, args |-> args, bits |-> bits,
     status |-> status, err |-> err, value |-> value]

\* Data::new(disk_count, disk_size), then possibly Raid::new(&mut data)
Init ==
    /\ \E dc \in 1..MaxDisks, size \in 0..MaxSize :
          /\ dc * size <= MaxTotal
          /\ data = Data_new(dc, size)
          /\ disk_size = size
    /\ raid \in BOOLEAN
    /\ parity_count = IF raid THEN Raid_new(data).parity_count ELSE 0
    /\ parity_disks = IF raid THEN Raid_new(data).parity_disks ELSE <<>>
    /\ written = <<>>
    /\ encoded = <<>>
    /\ op = Call("new", <<>>, <<>>, "Ok", "", <<>>)

\* A panic ends the run.  A read and a rejected write hand the array back as
\* they found it, so the calls that can follow one are the calls that can
\* follow the accepted write before it: they are explored from there, and a
\* behaviour is a run of accepted writes closed by at most one other call.
Running ==
    /\ op.status = "Ok"
    /\ op.name \in {"new", "Data_write_sequence", "Raid_write_sequence"}

\* data.write_sequence(bits), while no Raid borrows the Data
DataWrite ==
    /\ Running
    /\ ~raid
    /\ \E bits \in BitSeqs(MaxBits) :
          LET r == Data_write_sequence(data, bits)
          IN  /\ data' = r.data
              /\ written' = IF r.status = "Ok" THEN written \o bits ELSE written
              /\ op' = Call("Data_write_sequence", <<>>, bits, r.status, r.err, <<>>)
    /\ UNCHANGED <<disk_size, raid, parity_disks, parity_count, encoded>>

\* raid.write_sequence(bits)
RaidWrite ==
    /\ Running
    /\ raid
    /\ \E bits \in BitSeqs(MaxBits) :
          LET r == Raid_write_sequence(data, parity_disks, bits)
          IN  /\ data' = r.data
              /\ parity_disks' = r.parity_disks
              /\ written' = IF r.status = "Err" THEN written ELSE written \o bits
              /\ encoded' = encoded \o r.layers
              /\ op' = Call("Raid_write_sequence", <<>>, bits, r.status, r.err, <<>>)
    /\ UNCHANGED <<disk_size, raid, parity_count>>

\* data.get_bit(index)
GetBit ==
    /\ Running
    /\ \E index \in 0..(data.last_index + 1) :
          LET r == get_bit(data, index)
          IN  op' = Call("get_bit", <<index>>, <<>>, r.status, r.err,
                         IF r.status = "Ok" THEN <<r.value>> ELSE <<>>)
    /\ UNCHANGED <<data, disk_size, raid, parity_disks, parity_count, written, encoded>>

\* the start indices GetSlice tries: the first two positions and the two
\* around the end of the written range
SliceStarts == {0, 1, data.last_index, data.last_index + 1}

\* data.get_slice(start_index, end_index)
GetSlice ==
    /\ Running
    /\ \E start_index \in SliceStarts, end_index \in 0..(data.last_index + 1) :
          LET r == get_slice(data, start_index, end_index)
          IN  op' = Call("get_slice", <<start_index, end_index>>, <<>>,
                         r.status, r.err, r.value)
    /\ UNCHANGED <<data, disk_size, raid, parity_disks, parity_count, written, encoded>>

\* data.get_data_layer(layer_index)
GetDataLayer ==
    /\ Running
    /\ \E layer_index \in 0..(data.last_index \div data.disk_count + 1) :
          LET r == get_data_layer(data, layer_index)
          IN  op' = Call("get_data_layer", <<layer_index>>, <<>>,
                         r.status, r.err, r.value)
    /\ UNCHANGED <<data, disk_size, raid, parity_disks, parity_count, written, encoded>>

\* disks[i].get(index) on a data disk (kind 0) or a parity disk (kind 1), as
\* the tests of the module call it
DiskGet ==
    /\ Running
    /\ \E kind \in {0, 1} :
          LET disks == IF kind = 0 THEN data.disks ELSE parity_disks
          IN  \E i \in DOMAIN disks :
                 \E index \in 0..(Len(disks[i].info) + 1) :
                    LET r == Disk_get(disks[i], index)
                    IN  op' = Call("Disk_get", <<kind, i, index>>, <<>>,
                                   r.status, r.err,
                                   IF r.status = "Ok" THEN <<r.value>> ELSE <<>>)
    /\ UNCHANGED <<data, disk_size, raid, parity_disks, parity_count, written, encoded>>

Next == DataWrite \/ RaidWrite \/ GetBit \/ GetSlice \/ GetDataLayer \/ DiskGet

Spec == Init /\ [][Next]_vars

----------------------------------------------------------------------------
(* Vocabulary of the properties *)

WriteNames == {"Data_write_sequence", "Raid_write_sequence"}

DiskIds == DOMAIN data.disks

\* every data disk holds a bit at offset layer_index
FullLayer(layer_index) ==
    \A i \in DiskIds : Len(data.disks[i].info) > layer_index

\* the bits at offset layer_index of data disks 0, 1, ..., in that order
LayerBits(layer_index) ==
    [n \in 1..data.disk_count |-> data.disks[n - 1].info[layer_index + 1]]

RECURSIVE StoredOn(_)
StoredOn(ids) ==
    IF ids = {} THEN 0
    ELSE LET i == CHOOSE x \in ids : TRUE
         IN  Len(data.disks[i].info) + StoredOn(ids \ {i})

\* indices and layers a read can be asked for: every one up to and just past
\* the capacity
Indices == 0..(data.total_capacity + 1)

Layers == 0..(disk_size + 1)

HasBothBits(bits) == \E i, j \in DOMAIN bits : bits[i] /\ ~bits[j]

----------------------------------------------------------------------------
(* C1: round trip.  A write that keeps the total below disk_count *        *)
(* disk_size is accepted, and get_slice(0, last_index) returns exactly the *)
(* accepted bit sequences, concatenated in the order they were written.    *)
C1_RoundTrip ==
    /\ get_slice(data, 0, data.last_index) =
          [status |-> "Ok", err |-> "", value |-> written]
    /\ (op.name \in WriteNames /\ op.status # "Ok")
          => Len(written) + Len(op.bits) >= data.disk_count * disk_size
    /\ (op.name = "get_slice" /\ op.args = <<0, data.last_index>>)
          => (op.status = "Ok" /\ op.value = written)

\* the whole range read back after several writes into three disks
C1_Witness ==
    /\ op.name = "get_slice" /\ op.args = <<0, data.last_index>>
    /\ op.status = "Ok" /\ op.value = written
    /\ data.disk_count = 3
    /\ data.last_index > 2 * MaxBits
    /\ HasBothBits(written)

(* C2: striping law.  The i-th accepted bit is on data disk i mod          *)
(* disk_count at offset i div disk_count, the disks hold nothing else      *)
(* (their lengths add up to last_index), and last_index has advanced by    *)
(* the length of every accepted write.                                     *)
C2_Striping ==
    /\ data.last_index = Len(written)
    /\ \A i \in 0..(Len(written) - 1) :
          LET disk == data.disks[i % data.disk_count]
          IN  /\ Len(disk.info) > i \div data.disk_count
              /\ disk.info[(i \div data.disk_count) + 1] = written[i + 1]
    /\ StoredOn(DiskIds) = data.last_index

\* a write of several bits that started in the middle of a layer and crossed
\* into the next one
C2_Witness ==
    /\ op.name \in WriteNames /\ op.status = "Ok"
    /\ data.disk_count = 3
    /\ Len(op.bits) >= 2
    /\ (data.last_index - Len(op.bits)) % data.disk_count = 2
    /\ data.last_index > 2 * data.disk_count
    /\ HasBothBits(op.bits)

(* C3: capacity law.  Data.write_sequence(bits) is rejected exactly when   *)
(* last_index + len(bits) >= disk_count * disk_size (the exact fit         *)
(* included), and a rejected write leaves the disks, last_index and        *)
(* last_layer as they were.                                                *)
C3_CapacityLaw ==
    [][op'.name = "Data_write_sequence" =>
          /\ (op'.status = "Err") <=>
                (data.last_index + Len(op'.bits) >= data.disk_count * disk_size)
          /\ op'.status = "Err" => (op'.err = "Not enough space" /\ data' = data)
          /\ op'.status \in {"Ok", "Err"}]_vars

\* an exact-fit write into a part-filled array, rejected
C3_Witness ==
    /\ op.name = "Data_write_sequence" /\ op.status = "Err"
    /\ data.last_index > 0
    /\ Len(op.bits) > 0
    /\ data.last_index + Len(op.bits) = data.disk_count * disk_size

(* C4: one parity bit per completed layer.  With a Raid as the only        *)
(* writer, every parity disk holds as many bits as there are layers with a *)
(* bit on every data disk, i.e. last_index div disk_count.                 *)
C4_ParityPerCompletedLayer ==
    raid => \A k \in DOMAIN parity_disks :
               /\ Len(parity_disks[k].info) = data.last_index \div data.disk_count
               /\ \A layer \in Layers :
                     FullLayer(layer) <=> layer < Len(parity_disks[k].info)

----------------------------------------------------------------------------
(* Reference Hamming code, stated on the codeword rather than computed as  *)
(* the codec computes it.                                                  *)

\* the 0-based codeword position of data bit n (1-based): the n-th position
\* that is not reserved
CodewordPosition ==
    [n \in 1..(MaxDisks + 1) |->
        CHOOSE p \in 0..(2 * n + 2) :
            /\ ~IsReserved(p)
            /\ Cardinality({q \in 0..p : ~IsReserved(q)}) = n]

\* the even-parity value for reserved position 2^k - 1: TRUE iff an odd
\* number of the covered data bits are set
EvenParity(layer, k) ==
    Cardinality({n \in DOMAIN layer :
                    layer[n] /\ Covers(k, CodewordPosition[n])}) % 2 = 1

\* the parity disks after Raid.write_sequence(bits) on a fresh array
FreshRaidWrite(disk_count, size, bits) ==
    LET fresh == Data_new(disk_count, size)
    IN  Raid_write_sequence(fresh, Raid_new(fresh).parity_disks, bits)

\* the parity disks of raid_write_test: 4 disks of 16 bits, 9 bits written
TestParity ==
    LET r == FreshRaidWrite(4, 16, <<FALSE, TRUE, FALSE, TRUE,
                                     FALSE, TRUE, TRUE, FALSE, TRUE>>)
    IN  [k \in DOMAIN r.parity_disks |-> r.parity_disks[k].info]

(* C5: parity correctness.  The bit at offset j of parity disk k is the    *)
(* even Hamming parity for reserved position 2^k - 1 of the codeword of    *)
(* data layer j; with 4 data disks the layers [F,T,F,T] and [F,T,T,F] give *)
(* parity disk 0 = [F,T], disk 1 = [T,T], disk 2 = [F,F].                  *)
C5_ParityCorrect ==
    /\ raid => \A k \in DOMAIN parity_disks :
                  \A j \in 0..(Len(parity_disks[k].info) - 1) :
                      /\ FullLayer(j)
                      /\ parity_disks[k].info[j + 1] = EvenParity(LayerBits(j), k)
    /\ TestParity = (0 :> <<FALSE, TRUE>>) @@ (1 :> <<TRUE, TRUE>>) @@ (2 :> <<FALSE, FALSE>>)

\* two layers of three disks encoded by a Raid write, with both parity values on the disks
C5_Witness ==
    /\ raid /\ op.name = "Raid_write_sequence" /\ op.status = "Ok"
    /\ data.disk_count = 3 /\ parity_count = 3
    /\ \A k \in DOMAIN parity_disks : Len(parity_disks[k].info) = 2
    /\ \E k, l \in DOMAIN parity_disks :
          parity_disks[k].info[1] /\ ~parity_disks[l].info[2]

(* C6: layer completeness.  get_data_layer(L) returns Ok iff every data    *)
(* disk holds a bit at offset L, and an Ok result is the disk_count bits   *)
(* at offset L of disks 0, 1, ..., disk_count - 1 in that order.           *)
C6_LayerCompleteness ==
    /\ \A layer \in Layers :
          LET r == get_data_layer(data, layer)
          IN  /\ (r.status = "Ok") <=> FullLayer(layer)
              /\ r.status = "Ok" => r.value = LayerBits(layer)
    /\ op.name = "get_data_layer" =>
          /\ (op.status = "Ok") <=> FullLayer(op.args[1])
          /\ op.status = "Ok" => op.value = LayerBits(op.args[1])

\* the second layer of three disks read back
C6_Witness ==
    /\ op.name = "get_data_layer" /\ op.args = <<1>> /\ op.status = "Ok"
    /\ data.disk_count = 3
    /\ op.value = LayerBits(1)
    /\ HasBothBits(op.value)

(* C7: a read of a layer that some data disk has no bit for returns the    *)
(* error "Layer is not full", also on the empty array and when last_index  *)
(* is a multiple of disk_count; it never panics.                           *)
C7_IncompleteLayerIsErr ==
    (op.name = "get_data_layer" /\ ~FullLayer(op.args[1]))
        => (op.status = "Err" /\ op.err = "Layer is not full")

(* C8: a rejected Raid write has no effect.  When last_index + len(bits)   *)
(* >= total_capacity, Raid.write_sequence returns an error and the parity  *)
(* disks, the data disks, last_index and last_layer are unchanged.         *)
C8_RejectedRaidWrite ==
    [][(/\ op'.name = "Raid_write_sequence"
        /\ data.last_index + Len(op'.bits) >= data.total_capacity)
          => /\ op'.status = "Err"
             /\ op'.err = "Not enough space"
             /\ parity_disks' = parity_disks
             /\ data' = data]_vars

\* a Raid write rejected after parity bits were stored
C8_Witness ==
    /\ raid /\ op.name = "Raid_write_sequence" /\ op.status = "Err"
    /\ Len(op.bits) > 0
    /\ data.last_index + Len(op.bits) > data.total_capacity
    /\ \A k \in DOMAIN parity_disks : Len(parity_disks[k].info) >= 2

\* the bits at logical positions start_index..end_index - 1 of the array
Positions(start_index, end_index) ==
    [n \in 1..(end_index - start_index) |-> written[start_index + n]]

(* C9: get_slice is total.  For all start and end, get_slice(start, end)   *)
(* returns the OutOfRange error when end > last_index and otherwise Ok     *)
(* with the bits at positions [start, end) in order; it never panics, also *)
(* when start > end.                                                       *)
C9_GetSliceTotal ==
    op.name = "get_slice" =>
        LET start_index == op.args[1]
            end_index   == op.args[2]
        IN  IF end_index > data.last_index
            THEN op.status = "Err"
            ELSE /\ op.status = "Ok"
                 /\ op.value = Positions(start_index, end_index)

(* C10: get_bit boundary.  get_bit(index) returns Ok with the index-th     *)
(* accepted bit iff index < last_index and the error "Index was too big."  *)
(* for every index >= last_index; index = last_index passes the check of   *)
(* Data and is rejected by the disk it addresses.                          *)
C10_GetBitBoundary ==
    /\ \A index \in Indices :
          LET r == get_bit(data, index)
          IN  IF index < data.last_index
              THEN r.status = "Ok" /\ r.value = written[index + 1]
              ELSE r.status = "Err" /\ r.err = "Index was too big."
    /\ ~GetBitRejects(data, data.last_index)
    /\ op.name = "get_bit" =>
          IF op.args[1] < data.last_index
          THEN op.status = "Ok" /\ op.value = <<written[op.args[1] + 1]>>
          ELSE op.status = "Err" /\ op.err = "Index was too big."

\* get_bit(last_index) in the middle of a layer, turned down by the disk
C10_Witness ==
    /\ op.name = "get_bit" /\ op.args = <<data.last_index>>
    /\ op.status = "Err" /\ op.err = "Index was too big."
    /\ data.disk_count = 3
    /\ data.last_index % data.disk_count = 1
    /\ data.last_index > data.disk_count

----------------------------------------------------------------------------
ReadNames == {"get_bit", "get_slice", "get_data_layer", "Disk_get"}

IsPrefix(s, t) == Len(s) <= Len(t) /\ SubSeq(t, 1, Len(s)) = s

(* C11: capacity invariant.  last_index never exceeds disk_count *         *)
(* disk_size, and no data disk and no parity disk holds more than          *)
(* disk_size bits, although Disk.write checks nothing.                     *)
C11_CapacityInvariant ==
    /\ data.last_index <= data.disk_count * disk_size
    /\ \A i \in DiskIds : Len(data.disks[i].info) <= disk_size
    /\ \A k \in DOMAIN parity_disks : Len(parity_disks[k].info) <= disk_size

\* a data disk filled to its capacity, with parity stored
C11_Witness ==
    /\ raid /\ disk_size >= 2 /\ data.disk_count >= 2
    /\ \E i \in DiskIds : Len(data.disks[i].info) = disk_size
    /\ \A k \in DOMAIN parity_disks : Len(parity_disks[k].info) = disk_size - 1

(* C12: append-only frame.  Every call leaves the stored bits in place:    *)
(* each data and parity disk's content before the call is a prefix of its  *)
(* content after it, and the reads (get_bit, get_slice, get_data_layer,    *)
(* Disk.get) change nothing.                                               *)
C12_AppendOnly ==
    [][/\ DOMAIN data'.disks = DOMAIN data.disks
       /\ DOMAIN parity_disks' = DOMAIN parity_disks
       /\ \A i \in DOMAIN data.disks :
             IsPrefix(data.disks[i].info, data'.disks[i].info)
       /\ \A k \in DOMAIN parity_disks :
             IsPrefix(parity_disks[k].info, parity_disks'[k].info)
       /\ op'.name \in ReadNames =>
             UNCHANGED <<data, parity_disks, parity_count, disk_size>>]_vars

\* a Raid write that appended to data disks and parity disks holding bits
C12_Witness ==
    /\ raid /\ op.name = "Raid_write_sequence" /\ op.status = "Ok"
    /\ Len(op.bits) >= 2
    /\ data.last_index - Len(op.bits) > data.disk_count
    /\ (data.last_index - Len(op.bits) - 1) \div data.disk_count < data.last_layer
    /\ HasBothBits(written)
    /\ \A k \in DOMAIN parity_disks : Len(parity_disks[k].info) >= 2

(* C13: encoding order.  The layers are encoded in ascending order from    *)
(* layer 0, none skipped and none twice, so the bit at offset j of every   *)
(* parity disk was produced from data layer j.                             *)
C13_EncodingOrder ==
    raid =>
        /\ encoded = [j \in 1..Len(encoded) |-> j - 1]
        /\ \A k \in DOMAIN parity_disks :
              /\ Len(parity_disks[k].info) = Len(encoded)
              /\ \A j \in 0..(Len(encoded) - 1) :
                    /\ FullLayer(encoded[j + 1])
                    /\ parity_disks[k].info[j + 1]
                          = EvenParity(LayerBits(encoded[j + 1]), k)

\* two layers of three disks encoded, the second by a later call
C13_Witness ==
    /\ raid /\ op.name = "Raid_write_sequence" /\ op.status = "Ok"
    /\ data.disk_count = 3
    /\ encoded = <<0, 1>>
    /\ data.last_index - Len(op.bits) > data.disk_count
    /\ \E k \in DOMAIN parity_disks :
          parity_disks[k].info[1] # parity_disks[k].info[2]

(* C14: last_layer is 0 on the empty array and (last_index - 1) div        *)
(* disk_count otherwise: the layer of the most recently written bit,       *)
(* however the input was split into calls.                                 *)
C14_LastLayer ==
    data.last_layer = IF data.last_index = 0 THEN 0
                      ELSE (data.last_index - 1) \div data.disk_count

\* the third layer of three disks opened by a write that began mid-layer
C14_Witness ==
    /\ op.name \in WriteNames /\ op.status = "Ok"
    /\ data.disk_count = 3
    /\ data.last_layer = 2
    /\ Len(op.bits) >= 2
    /\ (data.last_index - Len(op.bits)) % data.disk_count # 0

(* C15: is_layer_full(L) is true iff every data disk holds a bit at offset *)
(* L, i.e. iff (L + 1) * disk_count <= last_index.                         *)
C15_IsLayerFull ==
    \A layer \in Layers :
        /\ is_layer_full(data, layer) <=> FullLayer(layer)
        /\ FullLayer(layer) <=> (layer + 1) * data.disk_count <= data.last_index

\* the reserved positions of the codeword of a layer of the array
ReservedPositions ==
    DOMAIN calculate_parity_bits(add_bits([n \in 1..data.disk_count |-> FALSE]))

(* C16: Raid.write_sequence never panics.  In a successful call every      *)
(* layer from last_layer before the call up to last_layer after it is full *)
(* when it is encoded, the reserved positions map to distinct parity disks *)
(* 0..parity_count - 1, and every parity disk gains exactly one bit per    *)
(* encoded layer.                                                          *)
C16_RaidWriteNeverPanics ==
    [][op'.name = "Raid_write_sequence" =>
          /\ op'.status \in {"Ok", "Err"}
          /\ op'.status = "Ok" =>
                /\ \A layer \in data.last_layer..(data'.last_layer - 1) :
                      get_data_layer(data', layer).status = "Ok"
                /\ \A p \in ReservedPositions : ParityDisk(p) \in 0..(parity_count - 1)
                /\ \A p, q \in ReservedPositions : ParityDisk(p) = ParityDisk(q) => p = q
                /\ \A k \in DOMAIN parity_disks :
                      Len(parity_disks'[k].info) =
                         Len(parity_disks[k].info) + data'.last_layer - data.last_layer]_vars

\* one call that encoded two layers of two disks
C16_Witness ==
    /\ raid /\ op.name = "Raid_write_sequence" /\ op.status = "Ok"
    /\ data.disk_count = 2
    /\ Len(op.bits) = 3
    /\ data.last_index = 5
    /\ encoded = <<0, 1>>
    /\ \A k \in DOMAIN parity_disks : Len(parity_disks[k].info) = 2

(* C17: parity length tracks last_layer.  All parity disks have the same   *)
(* length, and it equals data.last_layer.                                  *)
C17_ParityLengthIsLastLayer ==
    raid => /\ parity_count > 0
            /\ DOMAIN parity_disks = 0..(parity_count - 1)
            /\ \A k \in DOMAIN parity_disks :
                  Len(parity_disks[k].info) = data.last_layer

\* two complete layers of three disks, one of them encoded
C17_Witness ==
    /\ raid /\ op.name = "Raid_write_sequence" /\ op.status = "Ok"
    /\ data.disk_count = 3
    /\ data.last_index = 6
    /\ \A k \in DOMAIN parity_disks : Len(parity_disks[k].info) = 1

(* C18: chunking invariance.  If writing a ++ b in one Raid.write_sequence *)
(* call succeeds, writing a and then b in two calls succeeds too and ends  *)
(* in the same state: same data disks, last_index, last_layer and parity   *)
(* disks.  (Stated at the states a write can start from; a read leaves the *)
(* array as it is.)                                                        *)
C18_ChunkingInvariance ==
    (raid /\ Running) =>
        \A whole \in BitSeqs(MaxBits) :
            \A cut \in 0..Len(whole) :
                LET a      == SubSeq(whole, 1, cut)
                    b      == SubSeq(whole, cut + 1, Len(whole))
                    once   == Raid_write_sequence(data, parity_disks, whole)
                    first  == Raid_write_sequence(data, parity_disks, a)
                    second == Raid_write_sequence(first.data, first.parity_disks, b)
                IN  once.status = "Ok" =>
                       /\ first.status = "Ok"
                       /\ second.status = "Ok"
                       /\ second.data = once.data
                       /\ second.parity_disks = once.parity_disks
                       /\ first.layers \o second.layers = once.layers

\* a part-filled array of three disks that accepts a three-bit write crossing
\* into the next layer
C18_Witness ==
    /\ raid /\ Running /\ op.name = "Raid_write_sequence"
    /\ data.disk_count = 3
    /\ data.last_index % data.disk_count = 2
    /\ \E whole \in BitSeqs(MaxBits) :
          LET once == Raid_write_sequence(data, parity_disks, whole)
          IN  /\ Len(whole) = 3
              /\ once.status = "Ok"
              /\ once.data.last_layer > data.last_layer
              /\ once.layers # <<>>

RECURSIVE IsPowerOfTwo(_)
IsPowerOfTwo(n) == n = 1 \/ (n > 1 /\ n % 2 = 0 /\ IsPowerOfTwo(n \div 2))

\* get_power_of_two on 0..MaxNum
Log2Table == [n \in 0..MaxNum |-> get_power_of_two(n)]

\* the table holds floor(log2(n)) for n >= 1 and 0 for n = 0, and k at 2^k
TableIsFloorLog2 ==
    /\ Log2Table[0] = 0
    /\ \A n \in 1..MaxNum :
          Pow2(Log2Table[n]) <= n /\ n < Pow2(Log2Table[n] + 1)
    /\ \A p \in 0..(MaxNum - 1) :
          IsPowerOfTwo(p + 1) => Pow2(ParityDisk(p)) = p + 1

(* C19: get_power_of_two(n) ends and returns floor(log2(n)) for n >= 1,    *)
(* and 0 for n = 0; so for a reserved position p = 2^k - 1 the parity disk *)
(* index get_power_of_two(p + 1) is k.                                     *)
C19_PowerOfTwo ==
    /\ TableIsFloorLog2
    /\ raid => \A p \in ReservedPositions : Pow2(ParityDisk(p)) = p + 1

\* a layer encoded onto three parity disks: positions 0, 1 and 3 mapped
C19_Witness ==
    /\ raid /\ op.name = "Raid_write_sequence" /\ op.status = "Ok"
    /\ parity_count = 3
    /\ ReservedPositions = {0, 1, 3}
    /\ Len(parity_disks[ParityDisk(3)].info) >= 1

====
